---- MODULE Spec2Model ----
(***************************************************************************)
(* A model of @txnlab/utils-ts: the AssetAmount class (asset-amount.ts)    *)
(* over an arbitrary-precision decimal (bignumber.js), together with the   *)
(* caller-side objects it shares references with (AssetInfo records).      *)
(*                                                                         *)
(* A decimal is a record [s, c, e] standing for  s * c * 10^(-e): a sign   *)
(* (1 or -1, kept for zero as bignumber.js keeps it), a coefficient and    *)
(* the number of fraction digits, normalised so that c has no trailing     *)
(* zero while e > 0.  Strings are sequences of one-character strings.      *)
(***************************************************************************)
EXTENDS Integers, Sequences, FiniteSets, TLC

VARIABLES infos, amounts, last

vars == <<infos, amounts, last>>

(***************************************************************************)
(* Bounds of the model.                                                    *)
(***************************************************************************)
\* Largest magnitude, in whole units, of the decimals the caller passes in
\* and of the amounts it keeps in its variables.
MaxUnits == 1
\* Fraction digits kept by an inexact quotient (bignumber.js DECIMAL_PLACES,
\* 20 by default; quotients of the model's operands are short of both).
DecimalPlaces == 4

(***************************************************************************)
(* Strings                                                                 *)
(***************************************************************************)
DigitChars == <<"0", "1", "2", "3", "4", "5", "6", "7", "8", "9">>

DigitChar(d) == DigitChars[d + 1]

DigitVal(ch) == CHOOSE d \in 0..9 : DigitChars[d + 1] = ch

RECURSIVE NatToString(_)
NatToString(n) ==
    IF n < 10 THEN <<DigitChar(n)>>
    ELSE Append(NatToString(n \div 10), DigitChar(n % 10))

RECURSIVE DigitsToNat(_)
DigitsToNat(str) ==
    IF str = <<>> THEN 0
    ELSE DigitsToNat(SubSeq(str, 1, Len(str) - 1)) * 10 + DigitVal(str[Len(str)])

RECURSIVE PadStart(_, _)
PadStart(str, len) == IF Len(str) >= len THEN str ELSE PadStart(<<"0">> \o str, len)

\* Position of the first "." in str, or 0.
RECURSIVE IndexOfDot(_, _)
IndexOfDot(str, i) ==
    IF i > Len(str) THEN 0
    ELSE IF str[i] = "." THEN i ELSE IndexOfDot(str, i + 1)

(***************************************************************************)
(* bignumber.js                                                            *)
(***************************************************************************)
Pow10(k) == 10 ^ k

Max(a, b) == IF a >= b THEN a ELSE b

RECURSIVE Normalise(_, _, _)
Normalise(s, c, e) ==
    IF e > 0 /\ c % 10 = 0 THEN Normalise(s, c \div 10, e - 1)
    ELSE [s |-> s, c |-> c, e |-> e]

\* new BigNumber(n) for an integer n of the host language.
BigNumberOfInt(n) == IF n < 0 THEN [s |-> -1, c |-> -n, e |-> 0] ELSE [s |-> 1, c |-> n, e |-> 0]

\* The coefficient of x written with k >= x.e fraction digits.
Coeff(x, k) == x.c * Pow10(k - x.e)

BN_isZero(x) == x.c = 0

BN_isNegative(x) == x.s < 0

BN_isPositive(x) == x.s > 0

BN_negated(x) == [x EXCEPT !.s = -x.s]

\* compare(x, y): -1, 0 or 1; the two zeros compare equal.
BN_compare(x, y) ==
    LET k == Max(x.e, y.e)
        a == x.s * Coeff(x, k)
        b == y.s * Coeff(y, k)
    IN IF a < b THEN -1 ELSE IF a > b THEN 1 ELSE 0

BN_isEqualTo(x, y) == BN_compare(x, y) = 0

BN_isGreaterThan(x, y) == BN_compare(x, y) > 0

BN_isLessThan(x, y) == BN_compare(x, y) < 0

BN_isGreaterThanOrEqualTo(x, y) == BN_compare(x, y) >= 0

BN_isLessThanOrEqualTo(x, y) == BN_compare(x, y) <= 0

\* Sum of two decimals of the same sign (a zero sum keeps that sign).
SameSignPlus(x, y) ==
    LET k == Max(x.e, y.e) IN Normalise(x.s, Coeff(x, k) + Coeff(y, k), k)

\* Difference of two decimals of the same sign: n - n = +0 (rounding mode
\* is not ROUND_FLOOR), 0 - y = -y, x - 0 = x, (+-0) - (+-0) = +0.
SameSignMinus(x, y) ==
    LET k == Max(x.e, y.e)
        a == Coeff(x, k)
        b == Coeff(y, k)
    IN IF a = b THEN [s |-> 1, c |-> 0, e |-> 0]
       ELSE IF a > b THEN Normalise(x.s, a - b, k)
       ELSE Normalise(-x.s, b - a, k)

BN_plus(x, y) == IF x.s = y.s THEN SameSignPlus(x, y) ELSE SameSignMinus(x, BN_negated(y))

BN_minus(x, y) == IF x.s = y.s THEN SameSignMinus(x, y) ELSE SameSignPlus(x, BN_negated(y))

BN_multipliedBy(x, y) == Normalise(x.s * y.s, x.c * y.c, x.e + y.e)

\* x / y for y # 0, rounded half-up to DecimalPlaces fraction digits.
BN_dividedBy(x, y) ==
    LET k == Max(x.e, y.e)
        num == Coeff(x, k) * Pow10(DecimalPlaces)
        den == Coeff(y, k)
        q == num \div den
        r == num % den
    IN Normalise(x.s * y.s, q + (IF 2 * r >= den THEN 1 ELSE 0), DecimalPlaces)

\* integerValue(rm): x rounded to an integer; the sign is kept, also for zero.
BN_integerValue(x, rm) ==
    LET q == x.c \div Pow10(x.e)
        r == x.c % Pow10(x.e)
        up == CASE rm = "ROUND_DOWN" -> FALSE
                [] rm = "ROUND_UP" -> r > 0
                [] rm = "ROUND_CEIL" -> r > 0 /\ x.s > 0
                [] rm = "ROUND_FLOOR" -> r > 0 /\ x.s < 0
                [] rm = "ROUND_HALF_UP" -> 2 * r >= Pow10(x.e)
    IN [s |-> x.s, c |-> q + (IF up THEN 1 ELSE 0), e |-> 0]

\* toString(): fixed-point notation (the exponent of every decimal of the
\* model lies inside bignumber.js's EXPONENTIAL_AT range [-7, 21)); the sign
\* is written only for a non-zero value, so -0 prints as "0".
BN_toString(x) ==
    LET int == NatToString(x.c \div Pow10(x.e))
        frac == IF x.e > 0
                THEN <<".">> \o PadStart(NatToString(x.c % Pow10(x.e)), x.e)
                ELSE <<>>
    IN (IF x.s < 0 /\ x.c # 0 THEN <<"-">> ELSE <<>>) \o int \o frac

\* new BigNumber(str) for a decimal string: [-]digits[.digits].
BigNumberOfString(str) ==
    LET neg == Len(str) > 0 /\ str[1] = "-"
        body == IF neg THEN SubSeq(str, 2, Len(str)) ELSE str
        dot == IndexOfDot(body, 1)
        int == IF dot = 0 THEN body ELSE SubSeq(body, 1, dot - 1)
        frac == IF dot = 0 THEN <<>> ELSE SubSeq(body, dot + 1, Len(body))
    IN Normalise(IF neg THEN -1 ELSE 1, DigitsToNat(int \o frac), Len(frac))

\* BigInt(str) for an integer string, and bigint.toString().
BigIntOfString(str) ==
    IF Len(str) > 0 /\ str[1] = "-"
    THEN -DigitsToNat(SubSeq(str, 2, Len(str)))
    ELSE DigitsToNat(str)

BigIntToString(i) == IF i < 0 THEN <<"-">> \o NatToString(-i) ELSE NatToString(i)

BN_pow10(k) == BigNumberOfInt(Pow10(k))

(***************************************************************************)
(* format.ts                                                               *)
(*                                                                         *)
(* A number of the host language is a decimal [s, c, e] = s * c * 10^(-e)  *)
(* with e of either sign and c without trailing zero digits (1e12 is       *)
(* [1, 1, -12]); the doubles of the model are short decimals, which        *)
(* Intl.NumberFormat and toFixed print from their shortest decimal form.   *)
(* A bigint is the same record with e <= 0.                                *)
(***************************************************************************)
RECURSIVE Num(_, _, _)
Num(s, c, e) ==
    IF c = 0 THEN [s |-> s, c |-> 0, e |-> 0]
    ELSE IF c % 10 = 0 THEN Num(s, c \div 10, e - 1)
    ELSE [s |-> s, c |-> c, e |-> e]

Zeros(n) == [i \in 1..n |-> "0"]

\* The exponent of x # 0 in scientific notation: floor(log10 |x|).
Exponent(x) == Len(NatToString(x.c)) - 1 - x.e

\* |x| >= |y|
AbsGreaterOrEqual(x, y) ==
    IF y.c = 0 THEN TRUE
    ELSE IF x.c = 0 THEN FALSE
    ELSE IF Exponent(x) # Exponent(y) THEN Exponent(x) > Exponent(y)
    ELSE x.c * Pow10(Max(x.e, y.e) - x.e) >= y.c * Pow10(Max(x.e, y.e) - y.e)

\* Math.abs(value), and -value for a negative bigint.
Abs(x) == [x EXCEPT !.s = 1]

\* x / y for a divisor that is a power of ten, as every divisor of the tiers.
NumDividedBy(x, y) == Num(x.s * y.s, x.c, x.e - y.e)

RECURSIVE StripTrailingZeros(_)
StripTrailingZeros(str) ==
    IF str # <<>> /\ str[Len(str)] = "0"
    THEN StripTrailingZeros(SubSeq(str, 1, Len(str) - 1))
    ELSE str

\* Number(str) for a decimal string: [-]digits[.digits].
NumberOfString(str) ==
    LET neg == Len(str) > 0 /\ str[1] = "-"
        body == IF neg THEN SubSeq(str, 2, Len(str)) ELSE str
        dot == IndexOfDot(body, 1)
        int == IF dot = 0 THEN body ELSE SubSeq(body, 1, dot - 1)
        frac == IF dot = 0 THEN <<>> ELSE SubSeq(body, dot + 1, Len(body))
        digits == StripTrailingZeros(int \o frac)
    IN Num(IF neg THEN -1 ELSE 1, DigitsToNat(digits),
           Len(frac) - (Len(int \o frac) - Len(digits)))

\* The digits of |x| before and after the decimal point.
IntegerDigits(x) ==
    IF x.e <= 0 THEN NatToString(x.c) \o Zeros(-x.e)
    ELSE LET padded == PadStart(NatToString(x.c), x.e + 1)
         IN SubSeq(padded, 1, Len(padded) - x.e)

FractionDigits(x) ==
    IF x.e <= 0 THEN <<>>
    ELSE LET padded == PadStart(NatToString(x.c), x.e + 1)
         IN SubSeq(padded, Len(padded) - x.e + 1, Len(padded))

\* Number.prototype.toString() in fixed notation (1e-7 <= |x| < 1e21).
NumberToString(x) ==
    (IF x.s < 0 /\ x.c # 0 THEN <<"-">> ELSE <<>>)
        \o IntegerDigits(x)
        \o (IF x.e > 0 THEN <<".">> \o FractionDigits(x) ELSE <<>>)

\* x rounded to digits fraction digits, a tie away from zero (the rounding
\* of Intl.NumberFormat and, on the decimals of the model, of toFixed); the
\* sign stays when the result is zero.
RoundHalfExpand(x, digits) ==
    IF x.e <= digits THEN x
    ELSE LET drop == x.e - digits
         IN IF drop > Len(NatToString(x.c))
            THEN [s |-> x.s, c |-> 0, e |-> 0]
            ELSE Num(x.s,
                     (x.c \div Pow10(drop))
                         + (IF 2 * (x.c % Pow10(drop)) >= Pow10(drop) THEN 1 ELSE 0),
                     digits)

\* Digits in groups of three, from the right.
RECURSIVE Grouped(_)
Grouped(str) ==
    IF Len(str) <= 3 THEN str
    ELSE Grouped(SubSeq(str, 1, Len(str) - 3))
             \o <<",">> \o SubSeq(str, Len(str) - 2, Len(str))

\* new Intl.NumberFormat('en-US', {style, currency: 'USD',
\* minimumFractionDigits, maximumFractionDigits}).format(x)
IntlNumberFormat(x, style, minimumFractionDigits, maximumFractionDigits) ==
    LET rounded == RoundHalfExpand(x, maximumFractionDigits)
        fraction == FractionDigits(rounded)
                        \o Zeros(minimumFractionDigits - Len(FractionDigits(rounded)))
    IN (IF rounded.s < 0 THEN <<"-">> ELSE <<>>)
           \o (IF style = "currency" THEN <<"$">> ELSE <<>>)
           \o Grouped(IntegerDigits(rounded))
           \o (IF fraction = <<>> THEN <<>> ELSE <<".">> \o fraction)

\* const DEFAULT_COMPACT_THRESHOLD = 100_000n
DEFAULT_COMPACT_THRESHOLD == Num(1, 100000, 0)

\* x with the digits after the first digits fraction digits dropped.
Truncated(x, digits) ==
    IF x.e <= digits THEN x
    ELSE IF x.e - digits > Len(NatToString(x.c)) THEN [s |-> x.s, c |-> 0, e |-> 0]
    ELSE Num(x.s, x.c \div Pow10(x.e - digits), digits)

\* roundToFirstNonZeroDecimal rounding to two places whatever the exponent.
roundToFirstNonZeroDecimal_twoPlaces(num) ==
    IF num.c = 0 THEN Num(1, 0, 0) ELSE RoundHalfExpand(num, 2)

\* roundToFirstNonZeroDecimal cutting the digits off instead of rounding.
roundToFirstNonZeroDecimal_truncates(num) ==
    IF num.c = 0 THEN Num(1, 0, 0)
    ELSE Truncated(num, IF Exponent(num) < 0 THEN -Exponent(num) ELSE Exponent(num))

\* roundToFirstNonZeroDecimal(num): num.toFixed(|exponent of num|) read back
\* as a number.
roundToFirstNonZeroDecimal(num) ==
    IF num.c = 0 THEN Num(1, 0, 0)
    ELSE LET exponent == Exponent(num)
             decimalPlaces == IF exponent < 0 THEN -exponent ELSE exponent
         IN NumberOfString(
                LET fixed == RoundHalfExpand(num, decimalPlaces)
                IN (IF num.s < 0 THEN <<"-">> ELSE <<>>)
                       \o IntegerDigits(fixed)
                       \o (IF decimalPlaces > 0
                           THEN <<".">> \o FractionDigits(fixed)
                                    \o Zeros(decimalPlaces - Len(FractionDigits(fixed)))
                           ELSE <<>>))

\* The tiers listed from the smallest threshold up.
tiers_ascending ==
    << [threshold |-> Num(1, 1, -3), suffix |-> "K", divisor |-> Num(1, 1, -3)],
       [threshold |-> Num(1, 1, -6), suffix |-> "M", divisor |-> Num(1, 1, -6)],
       [threshold |-> Num(1, 1, -9), suffix |-> "B", divisor |-> Num(1, 1, -9)],
       [threshold |-> Num(1, 1, -12), suffix |-> "T", divisor |-> Num(1, 1, -12)] >>

tiers ==
    << [threshold |-> Num(1, 1, -12), suffix |-> "T", divisor |-> Num(1, 1, -12)],
       [threshold |-> Num(1, 1, -9), suffix |-> "B", divisor |-> Num(1, 1, -9)],
       [threshold |-> Num(1, 1, -6), suffix |-> "M", divisor |-> Num(1, 1, -6)],
       [threshold |-> Num(1, 1, -3), suffix |-> "K", divisor |-> Num(1, 1, -3)] >>

\* tiers.find((t) => absValue >= t.threshold): the index of the first such
\* tier, or 0 for undefined.
RECURSIVE FindTier(_, _)
FindTier(absValue, i) ==
    IF i > Len(tiers) THEN 0
    ELSE IF AbsGreaterOrEqual(absValue, tiers[i].threshold) THEN i
    ELSE FindTier(absValue, i + 1)

\* compact 'auto' with the threshold excluded.
shouldUseCompact_exclusive(compact, absValue) ==
    IF compact = "auto"
    THEN AbsGreaterOrEqual(absValue, DEFAULT_COMPACT_THRESHOLD)
             /\ absValue # DEFAULT_COMPACT_THRESHOLD
    ELSE compact = "true"

\* compact is false, true or 'auto', written here "false", "true", "auto".
shouldUseCompact(compact, absValue) ==
    IF compact = "auto"
    THEN AbsGreaterOrEqual(absValue, DEFAULT_COMPACT_THRESHOLD)
    ELSE compact = "true"

\* useRounding with the default of two fraction digits for every call.
useRounding_ignoresFractionDigits(adaptiveDecimals, numValue, fractionDigits) ==
    /\ adaptiveDecimals
    /\ numValue.c # 0
    /\ ~AbsGreaterOrEqual(Abs(numValue), Num(1, 1, 2))

\* useRounding: adaptiveDecimals && numValue !== 0 &&
\* Math.abs(numValue) < Math.pow(10, -(fractionDigits ?? 2)); fractionDigits
\* comes here with the default applied.
useRounding(adaptiveDecimals, numValue, fractionDigits) ==
    /\ adaptiveDecimals
    /\ numValue.c # 0
    /\ ~AbsGreaterOrEqual(Abs(numValue), Num(1, 1, fractionDigits))

\* formatNumber(amount, options): amount is [type, v] with type "number",
\* "bigint" or "string"; a key absent from options is undefined.
formatNumber(amount, options) ==
    LET style == IF "style" \in DOMAIN options THEN options.style ELSE "decimal"
        compact == IF "compact" \in DOMAIN options THEN options.compact ELSE "false"
        adaptiveDecimals ==
            IF "adaptiveDecimals" \in DOMAIN options
            THEN options.adaptiveDecimals ELSE FALSE
        value == IF amount.type = "string" THEN NumberOfString(amount.v) ELSE amount.v
        absValue == Abs(value)
        numValue == value
        baseDigits ==
            IF "fractionDigits" \in DOMAIN options THEN options.fractionDigits ELSE 2
        compactDigits ==
            IF "fractionDigits" \in DOMAIN options THEN options.fractionDigits ELSE 1
        base ==
            IF useRounding(adaptiveDecimals, numValue, baseDigits)
            THEN IntlNumberFormat(roundToFirstNonZeroDecimal(numValue), style, 0, 20)
            ELSE IntlNumberFormat(value, style, baseDigits, baseDigits)
        tier == FindTier(absValue, 1)
    IN IF ~shouldUseCompact(compact, absValue) THEN base
       ELSE IF tier # 0
       THEN IntlNumberFormat(NumDividedBy(value, tiers[tier].divisor), style,
                             compactDigits, compactDigits)
                \o <<tiers[tier].suffix>>
       ELSE base

(***************************************************************************)
(* AssetInfo objects and the caller's variables                            *)
(***************************************************************************)
\* The AssetInfo objects the caller owns; an amount holds one by reference.
InfoRefs == {"assetInfo", "otherInfo"}

\* The caller's variables that hold amounts.
Vars == {"amount1", "amount2"}

\* id: number | bigint, a value tagged with its host type.
NumberId(v) == [t |-> "number", v |-> v]

BigIntId(v) == [t |-> "bigint", v |-> v]

AssetIds == {NumberId(123), NumberId(456), BigIntId(123)}

DecimalsChoices == {0, 1, 2}

UnitNames == {"XYZ", ""}

\* The operands of === and !== : equal only with the same type and value.
StrictEquals(x, y) == x.t = y.t /\ x.v = y.v

RoundingModes == {"ROUND_UP", "ROUND_DOWN", "ROUND_CEIL", "ROUND_FLOOR", "ROUND_HALF_UP"}

\* Decimals the caller passes as standard units or scalars: k / 20.
StandardInputs ==
    {Normalise(IF k < 0 THEN -1 ELSE 1, 5 * (IF k < 0 THEN -k ELSE k), 2) :
        k \in (-20 * MaxUnits)..(20 * MaxUnits)}

\* Decimals the caller passes as microunits: k / 2.
MicroInputs ==
    {Normalise(IF k < 0 THEN -1 ELSE 1, 5 * (IF k < 0 THEN -k ELSE k), 1) :
        k \in (-2 * MaxUnits)..(2 * MaxUnits)}

\* The outcome of a call: a returned value or a thrown Error.
Return(v) == [threw |-> FALSE, value |-> v]

Throw(message) == [threw |-> TRUE, error |-> message]

(***************************************************************************)
(* class AssetAmount: accessors                                            *)
(***************************************************************************)
decimals(this) == infos[this._assetInfo].decimals

assetId(this) == infos[this._assetInfo].id

assetInfo(this) == this._assetInfo

microUnits(this) ==
    BigIntOfString(BN_toString(BN_integerValue(this._microUnits, "ROUND_DOWN")))

microBigNum(this) == this._microUnits

\* BigNumber.toNumber(): the double nearest to x, the sign of a zero kept.
\* Every coefficient met here has fewer than 15 digits, so the double
\* prints back as the same decimal, written as format.ts numbers are.
BN_toNumber(x) == Num(x.s, x.c, x.e)

standardUnits(this) ==
    BN_toNumber(BN_dividedBy(this._microUnits, BN_pow10(decimals(this))))

valueOf(this) == BN_toNumber(this._microUnits)

\* A unit name or symbol as the characters a template literal appends.
Characters(name) ==
    CASE name = "XYZ" -> <<"X", "Y", "Z">>
      [] name = "ABC" -> <<"A", "B", "C">>
      [] OTHER -> <<>>

RECURSIVE TrailingZerosStart(_, _)
\* The index where the zeros that end str begin (Len(str) + 1 without any).
TrailingZerosStart(str, i) ==
    IF i >= 1 /\ str[i] = "0" THEN TrailingZerosStart(str, i - 1) ELSE i + 1

\* str.replace(/0+$/, ''), the decimal point left in place.
replaceTrailingZeros_keepsPoint(str) ==
    SubSeq(str, 1, TrailingZerosStart(str, Len(str)) - 1)

\* str.replace(/\.?0+$/, ''): the leftmost match is the run of zeros that
\* ends str, with the decimal point right before it when there is one.
replaceTrailingZeros(str) ==
    LET z == TrailingZerosStart(str, Len(str))
    IN IF z > Len(str) THEN str
       ELSE IF z > 1 /\ str[z - 1] = "." THEN SubSeq(str, 1, z - 2)
       ELSE SubSeq(str, 1, z - 1)

\* format(options): a key absent from options is undefined.
format(this, options) ==
    LET showSymbol ==
            IF "showSymbol" \in DOMAIN options THEN options.showSymbol ELSE FALSE
        decimalPlaces ==
            IF "decimalPlaces" \in DOMAIN options
            THEN options.decimalPlaces ELSE decimals(this)
        showMicrounits ==
            IF "showMicrounits" \in DOMAIN options THEN options.showMicrounits ELSE FALSE
        trimZeroes ==
            IF "trimZeroes" \in DOMAIN options THEN options.trimZeroes ELSE TRUE
        formattedAmount ==
            formatNumber([type |-> "number", v |-> standardUnits(this)],
                         [fractionDigits |-> decimalPlaces,
                          adaptiveDecimals |-> trimZeroes])
        formattedWithZeroHandling ==
            IF trimZeroes /\ IndexOfDot(formattedAmount, 1) # 0
            THEN replaceTrailingZeros(formattedAmount)
            ELSE formattedAmount
        symbolToUse ==
            IF "symbol" \in DOMAIN options /\ options.symbol # ""
            THEN Characters(options.symbol)
            ELSE Characters(infos[this._assetInfo].unitName)
        withSymbol ==
            IF showSymbol /\ symbolToUse # <<>>
            THEN formattedWithZeroHandling \o <<" ">> \o symbolToUse
            ELSE formattedWithZeroHandling
        m == microUnits(this)
        formattedMicrounits ==
            formatNumber([type |-> "bigint",
                          v |-> Num(IF m < 0 THEN -1 ELSE 1, IF m < 0 THEN -m ELSE m, 0)],
                         [fractionDigits |-> 0, adaptiveDecimals |-> TRUE])
    IN IF showMicrounits
       THEN withSymbol \o <<" ", "(">> \o formattedMicrounits
                \o <<" ", "m", "i", "c", "r", "o", "u", "n", "i", "t", "s", ")">>
       ELSE withSymbol

standardBigNum(this) == BN_dividedBy(this._microUnits, BN_pow10(decimals(this)))

(***************************************************************************)
(* class AssetAmount: construction                                         *)
(***************************************************************************)
\* The constructor rounding standard units toward negative infinity.
AssetAmount_floor(info, params) ==
    IF "standardUnits" \in DOMAIN params
    THEN [_assetInfo |-> info,
          _microUnits |->
              BN_integerValue(
                  BN_multipliedBy(params.standardUnits, BN_pow10(infos[info].decimals)),
                  "ROUND_FLOOR")]
    ELSE [_assetInfo |-> info,
          _microUnits |-> BigNumberOfString(BN_toString(params.microUnits))]

\* The constructor truncating microunits as it stores them.
AssetAmount_truncatesMicroUnits(info, params) ==
    IF "standardUnits" \in DOMAIN params
    THEN [_assetInfo |-> info,
          _microUnits |->
              BN_integerValue(
                  BN_multipliedBy(params.standardUnits, BN_pow10(infos[info].decimals)),
                  "ROUND_DOWN")]
    ELSE [_assetInfo |-> info,
          _microUnits |->
              BN_integerValue(BigNumberOfString(BN_toString(params.microUnits)),
                              "ROUND_DOWN")]

\* constructor(assetInfo, params): params is [standardUnits |-> x] or
\* [microUnits |-> m]; the AssetInfo object is stored by reference.
AssetAmount(info, params) ==
    IF "standardUnits" \in DOMAIN params
    THEN [_assetInfo |-> info,
          _microUnits |->
              BN_integerValue(
                  BN_multipliedBy(params.standardUnits, BN_pow10(infos[info].decimals)),
                  "ROUND_DOWN")]
    ELSE [_assetInfo |-> info,
          _microUnits |-> BigNumberOfString(BN_toString(params.microUnits))]

StandardUnits(info, amount) == AssetAmount(info, [standardUnits |-> amount])

MicroUnits(info, amount) == AssetAmount(info, [microUnits |-> amount])

zero(info) == AssetAmount(info, [microUnits |-> BigNumberOfInt(0)])

\* fromCurrency taking the product of amount and price for the quotient.
fromCurrency_multiplies(info, currencyAmount, assetPrice) ==
    IF BN_isZero(assetPrice)
    THEN Throw("Asset price cannot be zero")
    ELSE Return(StandardUnits(info, BN_multipliedBy(currencyAmount, assetPrice)))

fromCurrency(info, currencyAmount, assetPrice) ==
    IF BN_isZero(assetPrice)
    THEN Throw("Asset price cannot be zero")
    ELSE Return(StandardUnits(info, BN_dividedBy(currencyAmount, assetPrice)))

\* other.microUnits.toString() handed to a bignumber.js method.
OtherMicroUnits(other) == BigNumberOfString(BigIntToString(microUnits(other)))

(***************************************************************************)
(* class AssetAmount: arithmetic                                           *)
(***************************************************************************)
add(this, other) ==
    IF ~StrictEquals(assetId(this), assetId(other))
    THEN Throw("Cannot add AssetAmounts with different asset IDs")
    ELSE IF decimals(this) # decimals(other)
    THEN Throw("Cannot add AssetAmounts with different decimals")
    ELSE Return(MicroUnits(this._assetInfo,
                           BN_plus(this._microUnits, OtherMicroUnits(other))))

subtract(this, other) ==
    IF ~StrictEquals(assetId(this), assetId(other))
    THEN Throw("Cannot subtract AssetAmounts with different asset IDs")
    ELSE IF decimals(this) # decimals(other)
    THEN Throw("Cannot subtract AssetAmounts with different decimals")
    ELSE Return(MicroUnits(this._assetInfo,
                           BN_minus(this._microUnits, OtherMicroUnits(other))))

\* multiply rounding the product away from zero.
multiply_roundsUp(this, scalar) ==
    Return(MicroUnits(this._assetInfo,
                      BN_integerValue(BN_multipliedBy(this._microUnits, scalar),
                                      "ROUND_UP")))

multiply(this, scalar) ==
    Return(MicroUnits(this._assetInfo,
                      BN_integerValue(BN_multipliedBy(this._microUnits, scalar),
                                      "ROUND_DOWN")))

\* divide rounding the quotient toward negative infinity.
divide_floor(this, scalar) ==
    IF BN_isZero(scalar)
    THEN Throw("Division by zero")
    ELSE Return(MicroUnits(this._assetInfo,
                           BN_integerValue(BN_dividedBy(this._microUnits, scalar),
                                           "ROUND_FLOOR")))

\* divide that hands the quotient on with its fraction.
divide_keepsFraction(this, scalar) ==
    IF BN_isZero(scalar)
    THEN Throw("Division by zero")
    ELSE Return(MicroUnits(this._assetInfo, BN_dividedBy(this._microUnits, scalar)))

divide(this, scalar) ==
    IF BN_isZero(scalar)
    THEN Throw("Division by zero")
    ELSE Return(MicroUnits(this._assetInfo,
                           BN_integerValue(BN_dividedBy(this._microUnits, scalar),
                                           "ROUND_DOWN")))

\* round that adds one to the truncated quotient for every mode but
\* ROUND_DOWN, a remainder or not.
round_alwaysBumps(this, decimalPlaces, roundingMode) ==
    IF decimalPlaces >= decimals(this)
    THEN Return(this)
    ELSE LET divisor == BN_pow10(decimals(this) - decimalPlaces)
             truncated ==
                 BN_integerValue(BN_dividedBy(this._microUnits, divisor), "ROUND_DOWN")
             rounded ==
                 BN_multipliedBy(
                     IF roundingMode = "ROUND_DOWN" THEN truncated
                     ELSE BN_plus(truncated, BigNumberOfInt(1)),
                     divisor)
         IN Return(MicroUnits(this._assetInfo, rounded))

\* round(decimalPlaces, roundingMode): returns this itself when there is
\* nothing to remove.
round(this, decimalPlaces, roundingMode) ==
    IF decimalPlaces >= decimals(this)
    THEN Return(this)
    ELSE LET divisor == BN_pow10(decimals(this) - decimalPlaces)
             rounded ==
                 BN_multipliedBy(
                     BN_integerValue(BN_dividedBy(this._microUnits, divisor),
                                     roundingMode),
                     divisor)
         IN Return(MicroUnits(this._assetInfo, rounded))

isZero(this) == BN_isZero(this._microUnits)

isPositive(this) == BN_isPositive(this._microUnits)

isNegative(this) == BN_isNegative(this._microUnits)

\* percentageOf with the zero test made before the identity tests.
percentageOf_zeroFirst(this, other) ==
    IF isZero(other)
    THEN Throw("Cannot calculate percentage of zero")
    ELSE IF ~StrictEquals(assetId(this), assetId(other))
    THEN Throw("Cannot compare AssetAmounts with different asset IDs")
    ELSE IF decimals(this) # decimals(other)
    THEN Throw("Cannot compare AssetAmounts with different decimals")
    ELSE LET divisor == OtherMicroUnits(other)
         IN IF BN_isZero(divisor)
            THEN Return([finite |-> FALSE,
                         nan |-> BN_isZero(this._microUnits),
                         s |-> this._microUnits.s * divisor.s])
            ELSE Return([finite |-> TRUE,
                         number |-> BN_multipliedBy(
                                        BN_dividedBy(this._microUnits, divisor),
                                        BigNumberOfInt(100))])

\* A quotient by zero is not finite in bignumber.js: Infinity, or NaN for 0/0.
percentageOf(this, other) ==
    IF ~StrictEquals(assetId(this), assetId(other))
    THEN Throw("Cannot compare AssetAmounts with different asset IDs")
    ELSE IF decimals(this) # decimals(other)
    THEN Throw("Cannot compare AssetAmounts with different decimals")
    ELSE IF isZero(other)
    THEN Throw("Cannot calculate percentage of zero")
    ELSE LET divisor == OtherMicroUnits(other)
         IN IF BN_isZero(divisor)
            THEN Return([finite |-> FALSE,
                         nan |-> BN_isZero(this._microUnits),
                         s |-> this._microUnits.s * divisor.s])
            ELSE Return([finite |-> TRUE,
                         number |-> BN_multipliedBy(
                                        BN_dividedBy(this._microUnits, divisor),
                                        BigNumberOfInt(100))])

(***************************************************************************)
(* class AssetAmount: comparisons                                          *)
(***************************************************************************)
isGreaterThan(this, other) ==
    IF ~StrictEquals(assetId(this), assetId(other))
    THEN Throw("Cannot compare AssetAmounts with different asset IDs")
    ELSE IF decimals(this) # decimals(other)
    THEN Throw("Cannot compare AssetAmounts with different decimals")
    ELSE Return(BN_isGreaterThan(this._microUnits, OtherMicroUnits(other)))

isLessThan(this, other) ==
    IF ~StrictEquals(assetId(this), assetId(other))
    THEN Throw("Cannot compare AssetAmounts with different asset IDs")
    ELSE IF decimals(this) # decimals(other)
    THEN Throw("Cannot compare AssetAmounts with different decimals")
    ELSE Return(BN_isLessThan(this._microUnits, OtherMicroUnits(other)))

isGreaterThanOrEqualTo(this, other) ==
    IF ~StrictEquals(assetId(this), assetId(other))
    THEN Throw("Cannot compare AssetAmounts with different asset IDs")
    ELSE IF decimals(this) # decimals(other)
    THEN Throw("Cannot compare AssetAmounts with different decimals")
    ELSE Return(BN_isGreaterThanOrEqualTo(this._microUnits, OtherMicroUnits(other)))

isLessThanOrEqualTo(this, other) ==
    IF ~StrictEquals(assetId(this), assetId(other))
    THEN Throw("Cannot compare AssetAmounts with different asset IDs")
    ELSE IF decimals(this) # decimals(other)
    THEN Throw("Cannot compare AssetAmounts with different decimals")
    ELSE Return(BN_isLessThanOrEqualTo(this._microUnits, OtherMicroUnits(other)))

\* equals that compares the magnitudes only.
equals_magnitudeOnly(this, other) ==
    Return(BN_isEqualTo(this._microUnits, OtherMicroUnits(other)))

equals(this, other) ==
    Return(/\ StrictEquals(assetId(this), assetId(other))
           /\ decimals(this) = decimals(other)
           /\ BN_isEqualTo(this._microUnits, OtherMicroUnits(other)))

(***************************************************************************)
(* class AssetAmount: serialisation                                        *)
(***************************************************************************)
\* The JSON object shares the amount's AssetInfo object.
toJSON(this) ==
    Return([assetInfo |-> this._assetInfo,
            microUnits |-> BN_toString(this._microUnits)])

\* json.microUnits is a string, and String.prototype.toString() is itself.
fromJSON(json) ==
    Return([_assetInfo |-> json.assetInfo,
            _microUnits |-> BigNumberOfString(json.microUnits)])

(***************************************************************************)
(* The caller: state and steps                                             *)
(*                                                                         *)
(* infos    the caller's AssetInfo objects, by reference;                  *)
(* amounts  the amounts the caller holds in its variables;                 *)
(* last     the call that has just returned: its name, its operands and    *)
(*          its outcome; "none" once the caller has taken the outcome.     *)
(***************************************************************************)
\* Scalars and prices the caller passes in.
ScalarInputs ==
    MicroInputs \cup {BigNumberOfInt(3), [s |-> 1, c |-> 75, e |-> 2]}

PriceInputs == {BigNumberOfInt(k) : k \in 0..(MaxUnits + 2)}

\* Calls that return an amount.
AmountOps ==
    {"StandardUnits", "MicroUnits", "zero", "fromCurrency", "add", "subtract",
     "multiply", "divide", "round", "fromJSON"}

\* |x| <= MaxUnits
InRange(x) == x.c <= MaxUnits * Pow10(x.e)

Init ==
    /\ infos \in {f \in [InfoRefs -> [id : AssetIds,
                                      decimals : DecimalsChoices,
                                      unitName : UnitNames]] :
                    /\ f["assetInfo"] = [id |-> NumberId(123), decimals |-> 1,
                                         unitName |-> "XYZ"]
                    /\ f["otherInfo"].unitName = ""}
    /\ amounts = <<>>
    /\ last = [op |-> "none"]

CallStandardUnits(info, x) ==
    /\ last.op = "none"
    /\ last' = [op |-> "StandardUnits", info |-> info, input |-> x,
                result |-> Return(StandardUnits(info, x))]
    /\ UNCHANGED <<infos, amounts>>

CallMicroUnits(info, m) ==
    /\ last.op = "none"
    /\ last' = [op |-> "MicroUnits", info |-> info, input |-> m,
                result |-> Return(MicroUnits(info, m))]
    /\ UNCHANGED <<infos, amounts>>

CallZero(info) ==
    /\ last.op = "none"
    /\ last' = [op |-> "zero", info |-> info, result |-> Return(zero(info))]
    /\ UNCHANGED <<infos, amounts>>

CallFromCurrency(info, c, p) ==
    /\ last.op = "none"
    /\ last' = [op |-> "fromCurrency", info |-> info, input |-> c, price |-> p,
                result |-> fromCurrency(info, c, p)]
    /\ UNCHANGED <<infos, amounts>>

\* The caller assigns the amount just returned to one of its variables.
Keep(v) ==
    /\ last.op \in AmountOps
    /\ ~last.result.threw
    /\ InRange(last.result.value._microUnits)
    /\ amounts' = [w \in DOMAIN amounts \cup {v} |->
                      IF w = v THEN last.result.value ELSE amounts[w]]
    /\ last' = [op |-> "none"]
    /\ UNCHANGED infos

\* The caller drops the value just returned (or has caught the Error).
Discard ==
    /\ last.op # "none"
    /\ last' = [op |-> "none"]
    /\ UNCHANGED <<infos, amounts>>

\* add that accumulates into the receiver.
CallAdd_inPlace(t, o) ==
    /\ last.op = "none"
    /\ last' = [op |-> "add", this |-> t, other |-> o,
                result |-> add(amounts[t], amounts[o])]
    /\ amounts' = IF add(amounts[t], amounts[o]).threw
                  THEN amounts
                  ELSE [amounts EXCEPT ![t] = add(amounts[t], amounts[o]).value]
    /\ UNCHANGED infos

CallAdd(t, o) ==
    /\ last.op = "none"
    /\ last' = [op |-> "add", this |-> t, other |-> o,
                result |-> add(amounts[t], amounts[o])]
    /\ UNCHANGED <<infos, amounts>>

CallSubtract(t, o) ==
    /\ last.op = "none"
    /\ last' = [op |-> "subtract", this |-> t, other |-> o,
                result |-> subtract(amounts[t], amounts[o])]
    /\ UNCHANGED <<infos, amounts>>

CallMultiply(t, scalar) ==
    /\ last.op = "none"
    /\ last' = [op |-> "multiply", this |-> t, scalar |-> scalar,
                result |-> multiply(amounts[t], scalar)]
    /\ UNCHANGED <<infos, amounts>>

\* The chained call amounts[t].multiply(scalar).divide(scalar).
CallMultiplyThenDivide(t, scalar) ==
    /\ last.op = "none"
    /\ last' = [op |-> "multiply.divide", this |-> t, scalar |-> scalar,
                product |-> multiply(amounts[t], scalar),
                result |-> divide(multiply(amounts[t], scalar).value, scalar)]
    /\ UNCHANGED <<infos, amounts>>

CallDivide(t, scalar) ==
    /\ last.op = "none"
    /\ last' = [op |-> "divide", this |-> t, scalar |-> scalar,
                result |-> divide(amounts[t], scalar)]
    /\ UNCHANGED <<infos, amounts>>

CallRound(t, decimalPlaces, roundingMode) ==
    /\ last.op = "none"
    /\ last' = [op |-> "round", this |-> t, decimalPlaces |-> decimalPlaces,
                roundingMode |-> roundingMode,
                result |-> round(amounts[t], decimalPlaces, roundingMode)]
    /\ UNCHANGED <<infos, amounts>>

CallPercentageOf(t, o) ==
    /\ last.op = "none"
    /\ last' = [op |-> "percentageOf", this |-> t, other |-> o,
                result |-> percentageOf(amounts[t], amounts[o])]
    /\ UNCHANGED <<infos, amounts>>

CallIsZero(t) ==
    /\ last.op = "none"
    /\ last' = [op |-> "isZero", this |-> t, result |-> Return(isZero(amounts[t]))]
    /\ UNCHANGED <<infos, amounts>>

GetStandardUnits(t) ==
    /\ last.op = "none"
    /\ last' = [op |-> "standardUnits", this |-> t,
                result |-> Return(standardUnits(amounts[t]))]
    /\ UNCHANGED <<infos, amounts>>

CallValueOf(t) ==
    /\ last.op = "none"
    /\ last' = [op |-> "valueOf", this |-> t,
                result |-> Return(valueOf(amounts[t]))]
    /\ UNCHANGED <<infos, amounts>>

CallIsPositive(t) ==
    /\ last.op = "none"
    /\ last' = [op |-> "isPositive", this |-> t,
                result |-> Return(isPositive(amounts[t]))]
    /\ UNCHANGED <<infos, amounts>>

CallIsNegative(t) ==
    /\ last.op = "none"
    /\ last' = [op |-> "isNegative", this |-> t,
                result |-> Return(isNegative(amounts[t]))]
    /\ UNCHANGED <<infos, amounts>>

CallIsGreaterThan(t, o) ==
    /\ last.op = "none"
    /\ last' = [op |-> "isGreaterThan", this |-> t, other |-> o,
                result |-> isGreaterThan(amounts[t], amounts[o])]
    /\ UNCHANGED <<infos, amounts>>

CallIsLessThan(t, o) ==
    /\ last.op = "none"
    /\ last' = [op |-> "isLessThan", this |-> t, other |-> o,
                result |-> isLessThan(amounts[t], amounts[o])]
    /\ UNCHANGED <<infos, amounts>>

CallIsGreaterThanOrEqualTo(t, o) ==
    /\ last.op = "none"
    /\ last' = [op |-> "isGreaterThanOrEqualTo", this |-> t, other |-> o,
                result |-> isGreaterThanOrEqualTo(amounts[t], amounts[o])]
    /\ UNCHANGED <<infos, amounts>>

CallIsLessThanOrEqualTo(t, o) ==
    /\ last.op = "none"
    /\ last' = [op |-> "isLessThanOrEqualTo", this |-> t, other |-> o,
                result |-> isLessThanOrEqualTo(amounts[t], amounts[o])]
    /\ UNCHANGED <<infos, amounts>>

CallEquals(t, o) ==
    /\ last.op = "none"
    /\ last' = [op |-> "equals", this |-> t, other |-> o,
                result |-> equals(amounts[t], amounts[o])]
    /\ UNCHANGED <<infos, amounts>>

CallToJSON(t) ==
    /\ last.op = "none"
    /\ last' = [op |-> "toJSON", this |-> t, result |-> toJSON(amounts[t])]
    /\ UNCHANGED <<infos, amounts>>

\* fromJSON applied to the object toJSON has just returned for amounts[t].
CallFromJSON ==
    /\ last.op = "toJSON"
    /\ last' = [op |-> "fromJSON", this |-> last.this, json |-> last.result.value,
                result |-> fromJSON(last.result.value)]
    /\ UNCHANGED <<infos, amounts>>

Next ==
    \/ \E info \in InfoRefs, x \in StandardInputs : CallStandardUnits(info, x)
    \/ \E info \in InfoRefs, m \in MicroInputs : CallMicroUnits(info, m)
    \/ \E info \in InfoRefs : CallZero(info)
    \/ \E info \in InfoRefs, c \in MicroInputs, p \in PriceInputs :
           CallFromCurrency(info, c, p)
    \/ \E v \in Vars : Keep(v)
    \/ Discard
    \/ \E t \in DOMAIN amounts, o \in DOMAIN amounts : CallAdd(t, o)
    \/ \E t \in DOMAIN amounts, o \in DOMAIN amounts : CallSubtract(t, o)
    \/ \E t \in DOMAIN amounts, scalar \in ScalarInputs : CallMultiply(t, scalar)
    \/ \E t \in DOMAIN amounts, scalar \in ScalarInputs : CallDivide(t, scalar)
    \/ \E t \in DOMAIN amounts, scalar \in ScalarInputs :
           CallMultiplyThenDivide(t, scalar)
    \/ \E t \in DOMAIN amounts, decimalPlaces \in DecimalsChoices,
          roundingMode \in RoundingModes :
           CallRound(t, decimalPlaces, roundingMode)
    \/ \E t \in DOMAIN amounts, o \in DOMAIN amounts : CallPercentageOf(t, o)
    \/ \E t \in DOMAIN amounts : CallIsZero(t)
    \/ \E t \in DOMAIN amounts : CallIsPositive(t)
    \/ \E t \in DOMAIN amounts : CallIsNegative(t)
    \/ \E t \in DOMAIN amounts, o \in DOMAIN amounts : CallIsGreaterThan(t, o)
    \/ \E t \in DOMAIN amounts, o \in DOMAIN amounts : CallIsLessThan(t, o)
    \/ \E t \in DOMAIN amounts, o \in DOMAIN amounts : CallIsGreaterThanOrEqualTo(t, o)
    \/ \E t \in DOMAIN amounts, o \in DOMAIN amounts : CallIsLessThanOrEqualTo(t, o)
    \/ \E t \in DOMAIN amounts, o \in DOMAIN amounts : CallEquals(t, o)
    \/ \E t \in DOMAIN amounts : CallToJSON(t)
    \/ CallFromJSON
    \/ \E t \in DOMAIN amounts : GetStandardUnits(t)
    \/ \E t \in DOMAIN amounts : CallValueOf(t)

Spec == Init /\ [][Next]_vars

(***************************************************************************)
(* A caller that also writes to its AssetInfo objects after it has         *)
(* constructed amounts from them.                                          *)
(***************************************************************************)
\* assetInfo.id = id, assetInfo.decimals = d or assetInfo.unitName = n, on
\* the caller's own reference to the object.
MutateAssetInfo(info, field, value) ==
    /\ last.op = "none"
    /\ infos[info][field] # value
    /\ infos' = [infos EXCEPT ![info][field] = value]
    /\ last' = [op |-> "mutateAssetInfo", info |-> info, field |-> field]
    /\ UNCHANGED amounts

\* The same write through the object amounts[t].assetInfo returns.
MutateViaAccessor(t, field, value) ==
    /\ last.op = "none"
    /\ infos[assetInfo(amounts[t])][field] # value
    /\ infos' = [infos EXCEPT ![assetInfo(amounts[t])][field] = value]
    /\ last' = [op |-> "mutateViaAccessor", this |-> t, field |-> field]
    /\ UNCHANGED amounts

FieldValues(field) ==
    CASE field = "id" -> AssetIds
      [] field = "decimals" -> DecimalsChoices
      [] field = "unitName" -> UnitNames

InitAlias ==
    /\ infos = [r \in InfoRefs |->
                   [id |-> NumberId(123), decimals |-> 1, unitName |-> "XYZ"]]
    /\ amounts = <<>>
    /\ last = [op |-> "none"]

NextAlias ==
    \/ \E info \in InfoRefs, x \in {BigNumberOfInt(1)} : CallStandardUnits(info, x)
    \/ \E info \in InfoRefs, m \in {BigNumberOfInt(1)} : CallMicroUnits(info, m)
    \/ \E v \in Vars : Keep(v)
    \/ Discard
    \/ \E t \in DOMAIN amounts, o \in DOMAIN amounts : CallAdd(t, o)
    \/ \E info \in InfoRefs, field \in {"id", "decimals", "unitName"} :
           \E value \in FieldValues(field) : MutateAssetInfo(info, field, value)
    \/ \E t \in DOMAIN amounts, field \in {"id", "decimals", "unitName"} :
           \E value \in FieldValues(field) : MutateViaAccessor(t, field, value)

SpecAlias == InitAlias /\ [][NextAlias]_vars

(***************************************************************************)
(* A caller of formatNumber.                                               *)
(***************************************************************************)
\* Magnitudes on and around the compact threshold and the tier thresholds,
\* and small ones that fixed fraction digits print as zero.
FormatMagnitudes ==
    {Num(1, 0, 0), Num(1, 5, 1), Num(1, 999, 0), Num(1, 9995, 1), Num(1, 1000, 0),
     Num(1, 1500, 0), Num(1, 99999, 0), Num(1, 999995, 1), Num(1, 100000, 0),
     Num(1, 999999, 0), Num(1, 1000000, 0), Num(1, 1500000, 0), Num(1, 1, -9),
     Num(1, 15, -8), Num(1, 1, -12), Num(1, 15, -12), Num(1, 1, 5),
     Num(1, 5678, 7), Num(1, 4, 3), Num(1, 96, 5), Num(1, 96, 4), Num(1, 1, 2),
     Num(1, 1, 9), Num(1, 123456, 3), Num(1, 1, 0)}

NumberInputs == FormatMagnitudes \cup {[x EXCEPT !.s = -1] : x \in FormatMagnitudes}

BigIntInputs == {x \in NumberInputs : x.e <= 0 /\ (x.c = 0 => x.s = 1)}

FormatInputs ==
    {[type |-> "number", v |-> x] : x \in NumberInputs}
        \cup {[type |-> "bigint", v |-> x] : x \in BigIntInputs}
        \cup {[type |-> "string", v |-> NumberToString(x)] : x \in NumberInputs}

\* FormatOptions: every key is optional.
FormatOptions ==
    {style @@ compact @@ fractionDigits @@ adaptiveDecimals :
        style \in {<<>>, [style |-> "decimal"], [style |-> "currency"]},
        compact \in {<<>>, [compact |-> "false"], [compact |-> "true"],
                     [compact |-> "auto"]},
        fractionDigits \in {<<>>} \cup {[fractionDigits |-> d] : d \in 0..2},
        adaptiveDecimals \in {<<>>, [adaptiveDecimals |-> FALSE],
                              [adaptiveDecimals |-> TRUE]}}

InitFormat ==
    /\ infos = [r \in InfoRefs |->
                   [id |-> NumberId(123), decimals |-> 1, unitName |-> "XYZ"]]
    /\ amounts = <<>>
    /\ last = [op |-> "none"]

CallFormatNumber(amount, options) ==
    /\ last.op = "none"
    /\ last' = [op |-> "formatNumber", amount |-> amount, options |-> options,
                result |-> Return(formatNumber(amount, options))]
    /\ UNCHANGED <<infos, amounts>>

CallRoundToFirstNonZeroDecimal(num) ==
    /\ last.op = "none"
    /\ last' = [op |-> "roundToFirstNonZeroDecimal", num |-> num,
                result |-> Return(roundToFirstNonZeroDecimal(num))]
    /\ UNCHANGED <<infos, amounts>>

NextFormat ==
    \/ \E amount \in FormatInputs, options \in FormatOptions :
           CallFormatNumber(amount, options)
    \/ \E num \in NumberInputs : CallRoundToFirstNonZeroDecimal(num)
    \/ Discard

SpecFormat == InitFormat /\ [][NextFormat]_vars

(***************************************************************************)
(* A caller that passes whole numbers of microunits to MicroUnits and      *)
(* derives every other amount by arithmetic and rounding.                  *)
(***************************************************************************)
IntegerMicroInputs == {m \in MicroInputs : m.e = 0}

NextInteger ==
    \/ \E info \in InfoRefs, x \in StandardInputs : CallStandardUnits(info, x)
    \/ \E info \in InfoRefs, m \in IntegerMicroInputs : CallMicroUnits(info, m)
    \/ \E info \in InfoRefs : CallZero(info)
    \/ \E info \in InfoRefs, c \in MicroInputs, p \in PriceInputs :
           CallFromCurrency(info, c, p)
    \/ \E v \in Vars : Keep(v)
    \/ Discard
    \/ \E t \in DOMAIN amounts, o \in DOMAIN amounts : CallAdd(t, o)
    \/ \E t \in DOMAIN amounts, o \in DOMAIN amounts : CallSubtract(t, o)
    \/ \E t \in DOMAIN amounts, scalar \in ScalarInputs : CallMultiply(t, scalar)
    \/ \E t \in DOMAIN amounts, scalar \in ScalarInputs : CallDivide(t, scalar)
    \/ \E t \in DOMAIN amounts, decimalPlaces \in DecimalsChoices,
          roundingMode \in RoundingModes :
           CallRound(t, decimalPlaces, roundingMode)

SpecInteger == Init /\ [][NextInteger]_vars

(***************************************************************************)
(* A caller that displays an amount it holds.                              *)
(***************************************************************************)
DisplayDecimals == {0, 2, 3}

\* Raw values of the amounts displayed, as decimals passed to MicroUnits.
DisplayMicroInputs ==
    {BigNumberOfInt(k) : k \in {0, 5, 999, 1000, 5500, 5543, 12345, 20000,
                                -5500, -12345}}
        \cup {[s |-> 1, c |-> 5, e |-> 1], [s |-> -1, c |-> 5, e |-> 1],
              [s |-> 1, c |-> 10005, e |-> 1]}

\* The options of format: every key is optional.
DisplayOptions ==
    {showSymbol @@ symbol @@ decimalPlaces @@ showMicrounits @@ trimZeroes :
        showSymbol \in {<<>>, [showSymbol |-> FALSE], [showSymbol |-> TRUE]},
        symbol \in {<<>>, [symbol |-> ""], [symbol |-> "ABC"]},
        decimalPlaces \in {<<>>} \cup {[decimalPlaces |-> d] : d \in {0, 2, 3}},
        showMicrounits \in {<<>>, [showMicrounits |-> FALSE],
                            [showMicrounits |-> TRUE]},
        trimZeroes \in {<<>>, [trimZeroes |-> FALSE], [trimZeroes |-> TRUE]}}

InitDisplay ==
    /\ infos \in [InfoRefs -> [id : {NumberId(123)}, decimals : DisplayDecimals,
                               unitName : UnitNames]]
    /\ infos["otherInfo"] = infos["assetInfo"]
    /\ amounts \in {[v \in {"amount1"} |-> MicroUnits("assetInfo", m)] :
                        m \in DisplayMicroInputs}
    /\ last = [op |-> "none"]

CallFormat(t, options) ==
    /\ last.op = "none"
    /\ last' = [op |-> "format", this |-> t, options |-> options,
                result |-> Return(format(amounts[t], options))]
    /\ UNCHANGED <<infos, amounts>>

NextDisplay ==
    \/ \E t \in DOMAIN amounts, options \in DisplayOptions : CallFormat(t, options)
    \/ Discard

SpecDisplay == InitDisplay /\ [][NextDisplay]_vars

(***************************************************************************)
(* Properties                                                              *)
(***************************************************************************)
IdentitySensitiveOps ==
    {"add", "subtract", "isGreaterThan", "isLessThan", "isGreaterThanOrEqualTo",
     "isLessThanOrEqualTo", "percentageOf"}

OrderingOps ==
    {"isGreaterThan", "isLessThan", "isGreaterThanOrEqualTo", "isLessThanOrEqualTo"}

Verb(op) == IF op \in {"add", "subtract"} THEN op ELSE "compare"

IdMismatchError(op) ==
    CASE Verb(op) = "add" -> "Cannot add AssetAmounts with different asset IDs"
      [] Verb(op) = "subtract" -> "Cannot subtract AssetAmounts with different asset IDs"
      [] Verb(op) = "compare" -> "Cannot compare AssetAmounts with different asset IDs"

DecimalsMismatchError(op) ==
    CASE Verb(op) = "add" -> "Cannot add AssetAmounts with different decimals"
      [] Verb(op) = "subtract" -> "Cannot subtract AssetAmounts with different decimals"
      [] Verb(op) = "compare" -> "Cannot compare AssetAmounts with different decimals"

MismatchErrors ==
    {IdMismatchError(op) : op \in IdentitySensitiveOps}
        \cup {DecimalsMismatchError(op) : op \in IdentitySensitiveOps}

\* The identity an amount shows: the id and decimals of its AssetInfo.
IdOf(a) == infos[a._assetInfo].id

DecimalsOf(a) == infos[a._assetInfo].decimals

SameIdentity(a, b) == IdOf(a) = IdOf(b) /\ DecimalsOf(a) = DecimalsOf(b)

\* The value s * c / 10^e of a decimal as a fraction over 10^k, k >= e.
Scaled(x, k) == x.s * x.c * Pow10(k - x.e)

SameValue(x, y) == Scaled(x, Max(x.e, y.e)) = Scaled(y, Max(x.e, y.e))

IsFractional(x) == x.e > 0

\* C1: an identity-sensitive call on amounts whose ids differ (as values of
\* the host language: same type and same number) throws the asset-ID
\* mismatch error, whatever the decimals and, for percentageOf, also when
\* the other amount is zero; with equal ids and different decimals it throws
\* the decimals mismatch error; a call that throws returns nothing; with id
\* and decimals equal it throws neither error.
C1_IdentityChecks ==
    last.op \in IdentitySensitiveOps =>
        LET a == amounts[last.this]
            b == amounts[last.other]
            r == last.result
        IN /\ IdOf(a) # IdOf(b) =>
                  r.threw /\ r.error = IdMismatchError(last.op)
           /\ IdOf(a) = IdOf(b) /\ DecimalsOf(a) # DecimalsOf(b) =>
                  r.threw /\ r.error = DecimalsMismatchError(last.op)
           /\ r.threw => "value" \notin DOMAIN r
           /\ SameIdentity(a, b) => ~r.threw \/ r.error \notin MismatchErrors

C1_Witness ==
    /\ last.op = "percentageOf"
    /\ IdOf(amounts[last.this]) # IdOf(amounts[last.other])
    /\ DecimalsOf(amounts[last.this]) # DecimalsOf(amounts[last.other])
    /\ isZero(amounts[last.other])
    /\ last.result.threw
    /\ last.result.error = "Cannot compare AssetAmounts with different asset IDs"

\* C2: for amounts of the same identity, add returns the amount whose raw
\* value is the sum of the two raw values and subtract the one whose raw
\* value is their difference, fractional microunits of both included, with
\* the identity of the receiver.
C2_SumOfRawValues ==
    last.op \in {"add", "subtract"}
        /\ SameIdentity(amounts[last.this], amounts[last.other]) =>
        LET a == amounts[last.this]
            b == amounts[last.other]
            r == last.result
        IN /\ ~r.threw
           /\ SameIdentity(r.value, a)
           /\ last.op = "add" =>
                  SameValue(r.value._microUnits, BN_plus(a._microUnits, b._microUnits))
           /\ last.op = "subtract" =>
                  SameValue(r.value._microUnits, BN_minus(a._microUnits, b._microUnits))

\* C3: equals never throws and returns a boolean; it returns false when the
\* ids or the decimals differ, also for equal magnitudes, while each of the
\* ordering comparisons throws on those operands.
C3_EqualsNeverFails ==
    /\ last.op = "equals" =>
           LET a == amounts[last.this]
               b == amounts[last.other]
           IN /\ ~last.result.threw
              /\ last.result.value \in BOOLEAN
              /\ ~SameIdentity(a, b) =>
                     /\ last.result.value = FALSE
                     /\ isGreaterThan(a, b).threw
                     /\ isLessThan(a, b).threw
                     /\ isGreaterThanOrEqualTo(a, b).threw
                     /\ isLessThanOrEqualTo(a, b).threw
    /\ last.op \in OrderingOps
           /\ ~SameIdentity(amounts[last.this], amounts[last.other]) =>
           last.result.threw

C3_Witness ==
    /\ last.op = "equals"
    /\ IdOf(amounts[last.this]) # IdOf(amounts[last.other])
    /\ amounts[last.this]._microUnits = amounts[last.other]._microUnits
    /\ ~BN_isZero(amounts[last.this]._microUnits)
    /\ ~last.result.threw
    /\ last.result.value = FALSE

\* C4: for amounts of equal id and decimals, equals returns true exactly
\* when the two raw values are equal, fractional microunits included; so
\* a.equals(a) is true for every amount a.
C4_EqualsComparesRawValues ==
    last.op = "equals"
        /\ SameIdentity(amounts[last.this], amounts[last.other]) =>
        LET a == amounts[last.this]
            b == amounts[last.other]
        IN /\ ~last.result.threw
           /\ last.result.value <=> SameValue(a._microUnits, b._microUnits)
           /\ last.this = last.other => last.result.value = TRUE

\* C5: an amount read back from its own JSON form has the identity and the
\* raw value of the original, and equals the original.
C5_JsonRoundTrip ==
    last.op = "fromJSON" =>
        LET a == amounts[last.this]
            r == last.result
        IN /\ ~r.threw
           /\ SameIdentity(r.value, a)
           /\ SameValue(r.value._microUnits, a._microUnits)
           /\ equals(r.value, a) = Return(TRUE)

\* C6: for amounts a and b of the same identity, a.add(b).subtract(b)
\* equals a.
C6_AddThenSubtract ==
    \A t \in DOMAIN amounts, o \in DOMAIN amounts :
        SameIdentity(amounts[t], amounts[o]) =>
            LET a == amounts[t]
                b == amounts[o]
                sum == add(a, b)
            IN /\ ~sum.threw
               /\ ~subtract(sum.value, b).threw
               /\ equals(subtract(sum.value, b).value, a) = Return(TRUE)

\* C7: a write to a field of an AssetInfo object, made through the caller's
\* reference or through the object the assetInfo accessor returns, changes
\* neither the id, the decimals, the unit name nor the standard-unit value
\* of an amount constructed before it.
C7_IdentitySnapshot ==
    [][\A t \in DOMAIN amounts :
          t \in DOMAIN amounts' /\ amounts'[t] = amounts[t] =>
              /\ infos'[amounts[t]._assetInfo].id = infos[amounts[t]._assetInfo].id
              /\ infos'[amounts[t]._assetInfo].decimals
                     = infos[amounts[t]._assetInfo].decimals
              /\ infos'[amounts[t]._assetInfo].unitName
                     = infos[amounts[t]._assetInfo].unitName
              /\ standardBigNum(amounts[t])' = standardBigNum(amounts[t])]_vars

\* Every call of the class, whether it returns or throws.
Calls ==
    AmountOps \cup IdentitySensitiveOps
        \cup {"isZero", "isPositive", "isNegative", "equals", "toJSON",
              "multiply.divide", "standardUnits", "valueOf"}

C9_StandardUnitsTruncates ==
    last.op = "StandardUnits" =>
        LET x == last.input
            magnitude == (x.c * Pow10(infos[last.info].decimals)) \div Pow10(x.e)
            r == last.result
        IN /\ ~r.threw
           /\ ~IsFractional(r.value._microUnits)
           /\ r.value._microUnits.c = magnitude
           /\ microUnits(r.value) = x.s * magnitude

C9_Witness ==
    /\ last.op = "StandardUnits"
    /\ last.input.s < 0
    /\ (last.input.c * Pow10(infos[last.info].decimals)) % Pow10(last.input.e) # 0
    /\ microUnits(last.result.value) < 0

\* C10: MicroUnits(I, m) stores m itself, a fractional part included, and
\* microUnits returns m with the fraction dropped toward zero.
C10_MicroUnitsStoredExactly ==
    last.op = "MicroUnits" =>
        LET m == last.input
            r == last.result
        IN /\ ~r.threw
           /\ microBigNum(r.value) = m
           /\ microUnits(r.value) = m.s * (m.c \div Pow10(m.e))

C10_Witness ==
    /\ last.op = "MicroUnits"
    /\ last.input.s < 0
    /\ IsFractional(last.input)
    /\ IsFractional(microBigNum(last.result.value))
    /\ microUnits(last.result.value) = 0

\* C11: multiply(s) returns the amount whose raw value is the integer part of
\* a.raw * s and divide(s) the one whose raw value is the integer part of
\* a.raw / s, the fraction dropped toward zero for either sign; divide throws
\* the division-by-zero error exactly when s is zero and then returns
\* nothing; neither throws an identity error, and the result holds the
\* AssetInfo of the receiver.
C11_ScalarArithmetic ==
    last.op \in {"multiply", "divide"} =>
        LET a == amounts[last.this]
            s == last.scalar
            r == last.result
            product == (a._microUnits.c * s.c) \div Pow10(a._microUnits.e + s.e)
            quotient == (a._microUnits.c * Pow10(s.e))
                            \div (s.c * Pow10(a._microUnits.e))
            magnitude == IF last.op = "multiply" THEN product ELSE quotient
        IN IF last.op = "divide" /\ s.c = 0
           THEN /\ r.threw
                /\ r.error = "Division by zero"
                /\ "value" \notin DOMAIN r
           ELSE /\ ~r.threw
                /\ r.value._assetInfo = a._assetInfo
                /\ SameIdentity(r.value, a)
                /\ ~IsFractional(r.value._microUnits)
                /\ r.value._microUnits.c = magnitude
                /\ microUnits(r.value) = a._microUnits.s * s.s * magnitude

C11_Witness ==
    /\ last.op = "divide"
    /\ ~last.result.threw
    /\ amounts[last.this]._microUnits.s * last.scalar.s < 0
    /\ (amounts[last.this]._microUnits.c * Pow10(last.scalar.e))
           % (last.scalar.c * Pow10(amounts[last.this]._microUnits.e)) # 0
    /\ microUnits(last.result.value) < 0

\* The integer nearest to sign * n / 10^k in the direction the mode names,
\* as a signed integer (n >= 0).
RoundedQuotient(sign, n, k, mode) ==
    LET q == n \div Pow10(k)
        rem == n % Pow10(k)
        up == CASE mode = "ROUND_DOWN" -> FALSE
                [] mode = "ROUND_UP" -> rem > 0
                [] mode = "ROUND_CEIL" -> rem > 0 /\ sign > 0
                [] mode = "ROUND_FLOOR" -> rem > 0 /\ sign < 0
                [] mode = "ROUND_HALF_UP" -> 2 * rem >= Pow10(k)
    IN sign * (q + (IF up THEN 1 ELSE 0))

\* C12: round(d, mode) returns the receiver, raw value unchanged, when
\* d >= decimals; otherwise, with k = decimals - d, it returns the amount
\* whose raw value is the integer microunits of the receiver (its raw value
\* with the fraction dropped) divided by 10^k, rounded to an integer as the
\* mode says, times 10^k.
C12_RoundFromIntegerMicroUnits ==
    last.op = "round" =>
        LET a == amounts[last.this]
            r == last.result
            k == DecimalsOf(a) - last.decimalPlaces
            n == microUnits(a)
            expected ==
                RoundedQuotient(IF n < 0 THEN -1 ELSE 1, IF n < 0 THEN -n ELSE n,
                                k, last.roundingMode) * Pow10(k)
        IN /\ ~r.threw
           /\ SameIdentity(r.value, a)
           /\ IF last.decimalPlaces >= DecimalsOf(a)
              THEN r.value = a
              ELSE SameValue(r.value._microUnits, BigNumberOfInt(expected))

\* C13: rounding the result of round(d, mode) again, to the same number of
\* places in the same mode, returns an amount of the same raw value.
C13_RoundIdempotent ==
    last.op = "round" =>
        LET again == round(last.result.value, last.decimalPlaces, last.roundingMode)
        IN /\ ~last.result.threw
           /\ ~again.threw
           /\ SameValue(again.value._microUnits, last.result.value._microUnits)

C13_Witness ==
    /\ last.op = "round"
    /\ last.decimalPlaces < DecimalsOf(amounts[last.this])
    /\ last.roundingMode # "ROUND_DOWN"
    /\ ~BN_isZero(last.result.value._microUnits)
    /\ ~SameValue(last.result.value._microUnits, amounts[last.this]._microUnits)

\* The amounts the caller can reach: those it holds and the one the call
\* that has just returned gave it.
Reachable ==
    {amounts[t] : t \in DOMAIN amounts}
        \cup (IF last.op \in AmountOps /\ ~last.result.threw
              THEN {last.result.value} ELSE {})

\* C14: for every amount the constructors and operations produce, also a
\* zero that came from a negative input, isZero() implies that isPositive()
\* is true and isNegative() is false; and isPositive() is the negation of
\* isNegative() for every amount.
C14_SignClassification ==
    \A a \in Reachable :
        /\ isZero(a) => isPositive(a) /\ ~isNegative(a)
        /\ isPositive(a) <=> ~isNegative(a)

\* C15: for amounts of equal id and decimals, each ordering comparison
\* returns what the numeric order of the two raw values says, fractional
\* microunits of both included; so a.isGreaterThan(a) and a.isLessThan(a)
\* are false.
C15_OrderingOfRawValues ==
    last.op \in OrderingOps
        /\ SameIdentity(amounts[last.this], amounts[last.other]) =>
        LET a == amounts[last.this]._microUnits
            b == amounts[last.other]._microUnits
            k == Max(a.e, b.e)
            r == last.result
        IN /\ ~r.threw
           /\ last.op = "isGreaterThan" => (r.value <=> Scaled(a, k) > Scaled(b, k))
           /\ last.op = "isLessThan" => (r.value <=> Scaled(a, k) < Scaled(b, k))
           /\ last.op = "isGreaterThanOrEqualTo" =>
                  (r.value <=> Scaled(a, k) >= Scaled(b, k))
           /\ last.op = "isLessThanOrEqualTo" =>
                  (r.value <=> Scaled(a, k) <= Scaled(b, k))
           /\ last.this = last.other /\ last.op \in {"isGreaterThan", "isLessThan"} =>
                  r.value = FALSE

\* C16: for amounts of equal id and decimals, percentageOf throws the
\* percentage-of-zero error when the other amount is zero, and otherwise
\* returns (a.raw / b.raw) * 100, a finite number computed from the raw
\* values of both.
C16_PercentageOfRawValues ==
    last.op = "percentageOf"
        /\ SameIdentity(amounts[last.this], amounts[last.other]) =>
        LET a == amounts[last.this]._microUnits
            b == amounts[last.other]._microUnits
            r == last.result
        IN IF b.c = 0
           THEN r.threw /\ r.error = "Cannot calculate percentage of zero"
           ELSE /\ ~r.threw
                /\ r.value.finite
                /\ SameValue(r.value.number,
                             BN_multipliedBy(BN_dividedBy(a, b), BigNumberOfInt(100)))

\* C17: fromCurrency(I, c, p) throws the zero-price error exactly when p is
\* zero, and then returns no amount; otherwise it returns the amount
\* StandardUnits gives for the quotient c / p: the AssetInfo I and the
\* integer part of (c / p) * 10^I.decimals, the fraction dropped toward zero.
C17_FromCurrency ==
    last.op = "fromCurrency" =>
        LET c == last.input
            p == last.price
            r == last.result
            numerator == c.c * Pow10(infos[last.info].decimals) * Pow10(p.e)
            denominator == p.c * Pow10(c.e)
        IN IF p.c = 0
           THEN /\ r.threw
                /\ r.error = "Asset price cannot be zero"
                /\ "value" \notin DOMAIN r
           ELSE /\ ~r.threw
                /\ r.value._assetInfo = last.info
                /\ ~IsFractional(r.value._microUnits)
                /\ r.value._microUnits.c = numerator \div denominator
                /\ microUnits(r.value) = c.s * p.s * (numerator \div denominator)

C17_Witness ==
    /\ last.op = "fromCurrency"
    /\ ~last.result.threw
    /\ last.input.s < 0
    /\ (last.input.c * Pow10(infos[last.info].decimals) * Pow10(last.price.e))
           % (last.price.c * Pow10(last.input.e)) # 0
    /\ microUnits(last.result.value) < 0

InputValue(amount) ==
    IF amount.type = "string" THEN NumberOfString(amount.v) ELSE amount.v

CompactOption(options) ==
    IF "compact" \in DOMAIN options THEN options.compact ELSE "false"

HasSuffix(str) == Len(str) > 0 /\ str[Len(str)] \in {"K", "M", "B", "T"}

\* C19: with compact 'auto' the output carries a suffix exactly when
\* |value| >= 100000, the boundary included, for a number, a bigint and a
\* numeric string alike; with compact true exactly when |value| >= 1000,
\* the smallest tier threshold; with compact false or absent, never.
C19_CompactActivation ==
    last.op = "formatNumber" =>
        LET v == InputValue(last.amount)
            compact == CompactOption(last.options)
            out == last.result.value
        IN /\ ~last.result.threw
           /\ compact = "auto" => (HasSuffix(out) <=> v.c # 0 /\ Exponent(v) >= 5)
           /\ compact = "true" => (HasSuffix(out) <=> v.c # 0 /\ Exponent(v) >= 3)
           /\ compact = "false" => ~HasSuffix(out)

C19_Witness ==
    /\ last.op = "formatNumber"
    /\ last.amount.type = "string"
    /\ InputValue(last.amount) = Num(-1, 100000, 0)
    /\ CompactOption(last.options) = "auto"
    /\ HasSuffix(last.result.value)

\* The exponent of the largest tier divisor that is <= |v|, for |v| >= 1000.
TierExponent(v) ==
    IF Exponent(v) >= 12 THEN 12
    ELSE IF Exponent(v) >= 9 THEN 9
    ELSE IF Exponent(v) >= 6 THEN 6 ELSE 3

TierSuffix(k) ==
    CASE k = 12 -> "T" [] k = 9 -> "B" [] k = 6 -> "M" [] k = 3 -> "K"

\* C20: when compact notation is active and |value| >= 1000, the output
\* ends with the suffix of the largest tier whose threshold is <= |value|,
\* and what stands before it has exactly fractionDigits decimal places (1
\* when fractionDigits is not given), a minus sign exactly for a negative
\* value, and reads as value / divisor rounded to those places; when
\* compact is true and |value| < 1000 there is no suffix and the output is
\* the one the same value and options give without compact.
C20_CompactTiering ==
    last.op = "formatNumber"
        /\ (\/ CompactOption(last.options) = "true"
            \/ /\ CompactOption(last.options) = "auto"
               /\ InputValue(last.amount).c # 0
               /\ Exponent(InputValue(last.amount)) >= 5) =>
        LET v == InputValue(last.amount)
            out == last.result.value
        IN IF v.c # 0 /\ Exponent(v) >= 3
           THEN LET k == TierExponent(v)
                    digits == IF "fractionDigits" \in DOMAIN last.options
                              THEN last.options.fractionDigits ELSE 1
                    body == SubSeq(out, 1, Len(out) - 1)
                    shown == BigNumberOfString(
                                 SelectSeq(body, LAMBDA ch : ch \notin {",", "$"}))
                    m == Max(Max(digits, v.e + k), shown.e)
                IN /\ out[Len(out)] = TierSuffix(k)
                   /\ IF digits = 0 THEN IndexOfDot(body, 1) = 0
                      ELSE IndexOfDot(body, 1) = Len(body) - digits
                   /\ body[1] = "-" <=> v.s < 0
                   /\ LET d == shown.c * Pow10(m - shown.e) - v.c * Pow10(m - v.e - k)
                      IN 2 * (IF d < 0 THEN -d ELSE d) <= Pow10(m - digits)
           ELSE /\ ~HasSuffix(out)
                /\ out = formatNumber(last.amount,
                                      [last.options EXCEPT !.compact = "false"])

C20_Witness ==
    /\ last.op = "formatNumber"
    /\ CompactOption(last.options) = "true"
    /\ "fractionDigits" \notin DOMAIN last.options
    /\ InputValue(last.amount) = Num(-1, 15, -8)
    /\ last.result.value = <<"-", "1", ".", "5", "B">>

\* The number of characters after the decimal point of str (0 without one).
FractionLength(str) ==
    IF IndexOfDot(str, 1) = 0 THEN 0 ELSE Len(str) - IndexOfDot(str, 1)

\* The decimal a formatted number reads as, grouping and currency sign apart.
Shown(str) == BigNumberOfString(SelectSeq(str, LAMBDA ch : ch \notin {",", "$"}))

\* 2 * |x - y| <= 10^(-digits), for decimals x and y.
WithinHalfUnit(x, y, digits) ==
    \/ x.c = y.c /\ x.e = y.e /\ (x.s = y.s \/ x.c = 0)
    \/ LET m == Max(Max(x.e, y.e), digits)
           d == x.s * x.c * Pow10(m - x.e) - y.s * y.c * Pow10(m - y.e)
       IN 2 * (IF d < 0 THEN -d ELSE d) <= Pow10(m - digits)

AdaptiveOption(options) ==
    IF "adaptiveDecimals" \in DOMAIN options THEN options.adaptiveDecimals ELSE FALSE

BaseDigitsOption(options) ==
    IF "fractionDigits" \in DOMAIN options THEN options.fractionDigits ELSE 2

C22_AdaptiveActivation ==
    last.op = "formatNumber" /\ ~HasSuffix(last.result.value) =>
        LET v == InputValue(last.amount)
            digits == BaseDigitsOption(last.options)
            out == last.result.value
        IN IF AdaptiveOption(last.options) /\ v.c # 0 /\ Exponent(v) < -digits
           THEN /\ FractionLength(out) \in {-Exponent(v), -Exponent(v) - 1}
                /\ Shown(out).c # 0
                /\ out[Len(out)] # "0"
                /\ WithinHalfUnit(Shown(out), v, -Exponent(v))
           ELSE FractionLength(out) = digits

C22_Witness ==
    /\ last.op = "formatNumber"
    /\ AdaptiveOption(last.options)
    /\ BaseDigitsOption(last.options) = 0
    /\ InputValue(last.amount) = Num(1, 5, 1)
    /\ last.result.value = <<"0", ".", "5">>

SameNumber(x, y) ==
    LET m == Max(x.e, y.e)
    IN x.s * x.c * Pow10(m - x.e) = y.s * y.c * Pow10(m - y.e)

\* The raw value of amount a cut to an integer, as a number.
TruncatedRaw(a) == BN_toNumber(BN_integerValue(a._microUnits, "ROUND_DOWN"))

\* C24: standardUnits is trunc(raw) / 10^decimals and valueOf() is
\* trunc(raw), for every amount, a fractional raw value included.
C24_AccessorsFromIntegerView ==
    /\ last.op = "standardUnits" =>
           SameNumber(last.result.value,
                      Num(TruncatedRaw(amounts[last.this]).s,
                          TruncatedRaw(amounts[last.this]).c,
                          decimals(amounts[last.this])))
    /\ last.op = "valueOf" =>
           SameNumber(last.result.value, TruncatedRaw(amounts[last.this]))

\* str holds the decimal digits of the integer n, a comma before every
\* group of three digits counted from the right and nowhere else.
IsGroupedInteger(str, n) ==
    /\ SelectSeq(str, LAMBDA ch : ch # ",") = BigIntToString(n)
    /\ \A i \in 1..Len(str) : (str[i] = ",") = ((Len(str) - i + 1) % 4 = 0)

MicrounitsTail == <<" ", "m", "i", "c", "r", "o", "u", "n", "i", "t", "s", ")">>

\* The integer part of a formatted number: what stands before the point.
IntegerPart(str) ==
    IF IndexOfDot(str, 1) = 0 THEN str ELSE SubSeq(str, 1, IndexOfDot(str, 1) - 1)

C26_IntegerMicroUnits ==
    \A a \in Reachable :
        /\ ~IsFractional(a._microUnits)
        /\ BigIntToString(microUnits(a)) = BN_toString(a._microUnits)

C26_Witness ==
    /\ last.op = "divide"
    /\ ~last.result.threw
    /\ last.scalar = [s |-> 1, c |-> 75, e |-> 2]
    /\ amounts[last.this]._microUnits = BigNumberOfInt(1)
    /\ last.result.value._microUnits = BigNumberOfInt(1)

\* C27: percentageOf on amounts of the same identity, when it returns,
\* has divided by a divisor other than zero and returns a finite number,
\* also for an argument that is not zero and smaller than one microunit.
C27_PercentageOfFinite ==
    last.op = "percentageOf"
        /\ SameIdentity(amounts[last.this], amounts[last.other])
        /\ ~last.result.threw =>
        /\ ~BN_isZero(OtherMicroUnits(amounts[last.other]))
        /\ last.result.value.finite

\* C28: for amounts a and b of the same identity, a.isGreaterThan(b) is
\* b.isLessThan(a), a.isGreaterThanOrEqualTo(b) is b.isLessThanOrEqualTo(a),
\* and a.isGreaterThan(b) and b.isGreaterThan(a) are never both true.
C28_OrderingDuality ==
    last.op \in OrderingOps
        /\ SameIdentity(amounts[last.this], amounts[last.other]) =>
        LET a == amounts[last.this]
            b == amounts[last.other]
            r == last.result
        IN /\ ~r.threw
           /\ last.op = "isGreaterThan" =>
                  /\ r.value = isLessThan(b, a).value
                  /\ ~(r.value /\ isGreaterThan(b, a).value)
           /\ last.op = "isLessThan" => r.value = isGreaterThan(b, a).value
           /\ last.op = "isGreaterThanOrEqualTo" =>
                  r.value = isLessThanOrEqualTo(b, a).value
           /\ last.op = "isLessThanOrEqualTo" =>
                  r.value = isGreaterThanOrEqualTo(b, a).value

\* The asset id of amount a as a number, whatever its host type.
NumericIdOf(a) == assetId(a).v

\* C29: whether two amounts are compatible depends on the numbers that
\* their ids and decimals are: with a number id and a bigint id of the same
\* integer and equal decimals, add, subtract, the orderings and
\* percentageOf throw no mismatch error, and equals returns true when the
\* raw values are equal.
C29_NumericIdentity ==
    /\ last.op \in IdentitySensitiveOps
           /\ IdOf(amounts[last.this]) # IdOf(amounts[last.other])
           /\ NumericIdOf(amounts[last.this]) = NumericIdOf(amounts[last.other])
           /\ DecimalsOf(amounts[last.this]) = DecimalsOf(amounts[last.other]) =>
           ~last.result.threw \/ last.result.error \notin MismatchErrors
    /\ last.op = "equals"
           /\ IdOf(amounts[last.this]) # IdOf(amounts[last.other])
           /\ NumericIdOf(amounts[last.this]) = NumericIdOf(amounts[last.other])
           /\ DecimalsOf(amounts[last.this]) = DecimalsOf(amounts[last.other])
           /\ SameValue(amounts[last.this]._microUnits,
                        amounts[last.other]._microUnits) =>
           ~last.result.threw /\ last.result.value

\* C30: an output of formatNumber that ends in K, M or B shows a number of
\* magnitude below 1000, whatever fractionDigits is.
C30_CompactMantissaBound ==
    last.op = "formatNumber"
        /\ last.result.value[Len(last.result.value)] \in {"K", "M", "B"} =>
        LET shown == Shown(SubSeq(last.result.value, 1, Len(last.result.value) - 1))
        IN shown.c < 1000 * Pow10(shown.e)
====
